---- MODULE Spec2Model ----
(***************************************************************************)
(* Lead scoring and rank maintenance of the Lead Generation System.        *)
(*                                                                         *)
(* Text fields (title, location, funding stage, publication title) are     *)
(* represented by the set of keywords the lowercased text contains, which  *)
(* is all the scorers ever ask of them (`kw in text`).  Sub-scores are     *)
(* kept in hundredths of a point, so that weight * 0.2, * 0.72 ... are     *)
(* exact integers.                                                         *)
(***************************************************************************)
EXTENDS Integers, Sequences, FiniteSets, TLC

\* ------------------------------------------------------------------------
\* Bounds of the model
\* ------------------------------------------------------------------------
NumSessions == 2
NumOwners == 2
MaxLeads == 2
MaxBulk == 2
\* leads ever created while requests of one scope run concurrently
MaxLeadsConcurrent == 2
MaxLeadsScopes == 3

Sessions == 1..NumSessions
Owners == 1..NumOwners

\* ------------------------------------------------------------------------
\* Program constants
\* ------------------------------------------------------------------------
DEFAULT_ROLE_WEIGHT == 30
DEFAULT_PUBLICATION_WEIGHT == 40
DEFAULT_FUNDING_WEIGHT == 20
DEFAULT_LOCATION_WEIGHT == 10
\* datetime.now().year at the time of the call
CurrentYear == 2026

\* SQL NULL in the integer columns rank and propensity_score
NULL == -1

Min(a, b) == IF a <= b THEN a ELSE b
Max(a, b) == IF a >= b THEN a ELSE b

\* any(kw in text for kw in kws)
AnyIn(kws, text) == (kws \cap text) # {}

\* int(x) of a value held in hundredths: truncation toward zero
IntOf(x) == IF x >= 0 THEN x \div 100 ELSE -((-x) \div 100)

\* ------------------------------------------------------------------------
\* ScoringService (backend)
\* ------------------------------------------------------------------------
DefaultWeights ==
    [role_fit |-> DEFAULT_ROLE_WEIGHT, publication |-> DEFAULT_PUBLICATION_WEIGHT,
     funding |-> DEFAULT_FUNDING_WEIGHT, location |-> DEFAULT_LOCATION_WEIGHT]

SeniorityKeywords == {"director", "head", "vp", "chief", "lead", "principal"}
PublicationKeywords == {"dili", "liver injury", "3d", "organoid", "toxicity"}

\* the seniority bonus without the cap at the weight
SS_score_role_fit_uncapped(lead, weights) ==
    LET max_score == weights.role_fit * 100
        base == IF lead.title = {} THEN (max_score * 2) \div 10
                ELSE IF AnyIn({"toxicology", "toxicologist", "safety", "hepatic", "liver"}, lead.title)
                     THEN max_score
                ELSE IF AnyIn({"3d", "in vitro", "in-vitro"}, lead.title)
                     THEN (max_score * 8) \div 10
                ELSE IF AnyIn({"scientist", "researcher", "director", "vp", "head"}, lead.title)
                     THEN (max_score * 6) \div 10
                ELSE (max_score * 2) \div 10
    IN  IF AnyIn({"director", "head", "vp", "chief", "lead", "principal"}, lead.title)
        THEN (base * 12) \div 10 ELSE base

SS_score_role_fit(lead, weights) ==
    LET max_score == weights.role_fit * 100
        base == IF lead.title = {} THEN (max_score * 2) \div 10
                ELSE IF AnyIn({"toxicology", "toxicologist", "safety", "hepatic", "liver"}, lead.title)
                     THEN max_score
                ELSE IF AnyIn({"3d", "in vitro", "in-vitro"}, lead.title)
                     THEN (max_score * 8) \div 10
                ELSE IF AnyIn({"scientist", "researcher", "director", "vp", "head"}, lead.title)
                     THEN (max_score * 6) \div 10
                ELSE (max_score * 2) \div 10
        score == IF AnyIn(SeniorityKeywords, lead.title) THEN (base * 12) \div 10 ELSE base
    IN  Min(score, max_score)

\* a recent publication scored without looking at its topic
SS_score_publication_any_topic(lead, weights, current_year) ==
    LET max_score == weights.publication * 100
        pub_year == IF lead.publication_year = NULL THEN 0 ELSE lead.publication_year
    IN  IF ~lead.recent_publication THEN max_score \div 10
        ELSE IF pub_year >= current_year - 2 THEN (max_score * 8) \div 10
        ELSE IF pub_year >= current_year - 5 THEN (max_score * 5) \div 10
        ELSE max_score \div 10

SS_score_publication(lead, weights, current_year) ==
    LET max_score == weights.publication * 100
        pub_year == IF lead.publication_year = NULL THEN 0 ELSE lead.publication_year
    IN  IF ~lead.recent_publication THEN max_score \div 10
        ELSE IF pub_year >= current_year - 2
             THEN IF AnyIn(PublicationKeywords, lead.publication_title)
                  THEN max_score ELSE (max_score * 8) \div 10
        ELSE IF pub_year >= current_year - 5 THEN (max_score * 5) \div 10
        ELSE max_score \div 10

SS_score_funding(lead, weights) ==
    LET max_score == weights.funding * 100
        funding == lead.company_funding
    IN  IF funding = {} THEN (max_score * 2) \div 10
        ELSE IF AnyIn({"series a", "series b", "series c"}, funding) THEN max_score
        ELSE IF AnyIn({"public", "ipo"}, funding) THEN (max_score * 8) \div 10
        ELSE IF AnyIn({"seed", "early"}, funding) THEN (max_score * 4) \div 10
        ELSE (max_score * 2) \div 10

SS_score_location(lead, weights) ==
    LET max_score == weights.location * 100
        location == lead.location
    IN  IF location = {} THEN (max_score * 2) \div 10
        ELSE IF AnyIn({"cambridge, ma", "boston", "bay area", "basel"}, location) THEN max_score
        ELSE IF AnyIn({"san francisco", "south san francisco", "san diego", "oxford",
                       "cambridge uk", "london", "seattle", "new jersey"}, location)
             THEN (max_score * 6) \div 10
        ELSE (max_score * 2) \div 10

\* the weighted sum as an integer, not brought into the range 0..100
SS_calculate_score_unclamped(lead, weights, current_year) ==
    IntOf(SS_score_role_fit(lead, weights)
          + SS_score_publication(lead, weights, current_year)
          + SS_score_funding(lead, weights)
          + SS_score_location(lead, weights))

SS_calculate_score(lead, weights, current_year) ==
    LET score == SS_score_role_fit(lead, weights)
                 + SS_score_publication(lead, weights, current_year)
                 + SS_score_funding(lead, weights)
                 + SS_score_location(lead, weights)
    IN  Max(0, Min(100, IntOf(score)))

\* ------------------------------------------------------------------------
\* PropensityScorer (Streamlit application)
\* ------------------------------------------------------------------------
ROLE_KEYWORDS ==
    {"toxicology", "toxicologist", "safety", "preclinical", "hepatic", "liver",
     "3d", "in vitro", "in-vitro", "drug induced", "dili", "adme",
     "safety assessment", "safety pharmacology", "nonclinical", "director",
     "head", "vp", "chief", "lead", "principal"}

STRATEGIC_LOCATIONS ==
    {"cambridge", "boston", "bay area", "san francisco", "south san francisco",
     "san diego", "basel", "oxford", "cambridge uk", "london", "seattle",
     "new jersey"}

PS_score_role_fit(lead, weights) ==
    LET max_score == weights.role_fit * 100
        base == IF AnyIn({"toxicology", "safety", "hepatic"}, lead.title)
                THEN max_score
                ELSE IF AnyIn({"3d", "in vitro", "in-vitro"}, lead.title)
                     THEN (max_score * 8) \div 10
                ELSE IF AnyIn(ROLE_KEYWORDS, lead.title)
                     THEN (max_score * 6) \div 10
                ELSE (max_score * 2) \div 10
        score == IF AnyIn(SeniorityKeywords, lead.title) THEN (base * 12) \div 10 ELSE base
    IN  Min(score, max_score)

\* a year that is absent (the default 0, or NaN in the data frame) fails
\* both comparisons
PS_score_publication(lead, weights, current_year) ==
    LET max_score == weights.publication * 100
        pub_year == IF lead.publication_year = NULL THEN 0 ELSE lead.publication_year
    IN  IF lead.recent_publication /\ pub_year >= current_year - 2
        THEN IF AnyIn(PublicationKeywords, lead.publication_title)
             THEN max_score ELSE (max_score * 8) \div 10
        ELSE IF pub_year > 0 /\ pub_year >= current_year - 5
             THEN (max_score * 5) \div 10
        ELSE max_score \div 10

PS_score_funding(lead, weights) ==
    LET max_score == weights.funding * 100
        funding == lead.company_funding
    IN  IF AnyIn({"series a", "series b", "series c"}, funding) THEN max_score
        ELSE IF AnyIn({"public", "ipo"}, funding) THEN (max_score * 8) \div 10
        ELSE IF AnyIn({"seed", "early"}, funding) THEN (max_score * 4) \div 10
        ELSE (max_score * 2) \div 10

PS_score_location(lead, weights) ==
    LET max_score == weights.location * 100
        location == lead.location
    IN  IF AnyIn({"cambridge, ma", "boston", "bay area", "basel"}, location) THEN max_score
        ELSE IF AnyIn(STRATEGIC_LOCATIONS, location) THEN (max_score * 6) \div 10
        ELSE (max_score * 2) \div 10

PS_calculate_score(lead, weights, current_year) ==
    LET score == PS_score_role_fit(lead, weights)
                 + PS_score_publication(lead, weights, current_year)
                 + PS_score_funding(lead, weights)
                 + PS_score_location(lead, weights)
    IN  Max(0, Min(100, IntOf(score)))

\* ------------------------------------------------------------------------
\* AI lead scoring pipeline: fixed points per factor, plus the enrichment
\* bonus from the bibliographic lookup.  Here title and research_area are the
\* sets of keywords contained; funding_stage and person_location are compared
\* as whole strings.
\* ------------------------------------------------------------------------
score_role_fit(title) ==
    IF AnyIn({"toxicology", "safety", "hepatic", "3d"}, title) THEN 30 ELSE 0

score_scientific_intent(research_area, year) ==
    IF year = NULL THEN 0
    ELSE Min((IF AnyIn({"toxicity", "hepatic", "3d"}, research_area) THEN 20 ELSE 0)
             + (IF year >= 2023 THEN 20 ELSE 0), 40)

score_funding(funding_stage) ==
    IF funding_stage \in {"Series A", "Series B"} THEN 20
    ELSE IF funding_stage = "Series C" THEN 15
    ELSE 0

score_location(location) ==
    IF location \in {"boston", "cambridge", "basel", "bay area"} THEN 10 ELSE 0

calculate_propensity_score(row) ==
    Min(score_role_fit(row.title)
        + score_scientific_intent(row.research_area, row.last_publication_year)
        + score_funding(row.funding_stage)
        + score_location(row.person_location), 100)

\* an answer that is none of the three words counted as MEDIUM
classify_relevance_lenient(abstract) ==
    IF abstract = "short" THEN 0
    ELSE IF abstract = "HIGH" THEN 100
    ELSE IF abstract = "LOW" THEN 0
    ELSE 50

\* classify_relevance of one abstract, in hundredths: an abstract shorter
\* than 50 characters is not sent to the classifier; the others are named by
\* the classifier's answer, stripped and in upper case
classify_relevance(abstract) ==
    IF abstract = "short" THEN 0
    ELSE IF abstract = "HIGH" THEN 100
    ELSE IF abstract = "MEDIUM" THEN 50
    ELSE 0

\* What the bibliographic lookup of one author does: the search either raises
\* or returns identifiers; each identifier's abstract either fails to be
\* fetched, is too short, or is classified (the classifier call may raise).
LookupRaises(lookup) ==
    \/ lookup.search = "error"
    \/ \E i \in DOMAIN lookup.abstracts :
         lookup.abstracts[i] \in {"fetch_error", "classifier_error"}

\* the average of the relevance values instead of their maximum
compute_scientific_intent_score_average(lookup) ==
    IF lookup.abstracts = <<>> THEN 0
    ELSE LET RECURSIVE Sum(_)
             Sum(n) == IF n = 0 THEN 0
                       ELSE classify_relevance(lookup.abstracts[n]) + Sum(n - 1)
         IN  Sum(Len(lookup.abstracts)) \div Len(lookup.abstracts)

\* client.chat.completions.create calls made by one lookup: one for every
\* abstract fetched that has 50 characters or more, up to the first call
\* that raises
classifier_calls(lookup) ==
    LET a == lookup.abstracts
        failing == {i \in DOMAIN a : a[i] \in {"fetch_error", "classifier_error"}}
        last == IF failing = {} THEN Len(a)
                ELSE CHOOSE i \in failing : \A j \in failing : i <= j
    IN  Cardinality({i \in 1..last : a[i] \notin {"short", "fetch_error"}})

\* compute_scientific_intent_score when it returns, in hundredths
compute_scientific_intent_score(lookup) ==
    IF lookup.abstracts = <<>> THEN 0
    ELSE LET scores == {classify_relevance(lookup.abstracts[i]) : i \in DOMAIN lookup.abstracts}
         IN  CHOOSE m \in scores : \A x \in scores : x <= m

\* apply_scoring for one row of the frame: nothing catches what the lookup
\* raises, so the call raises too and no score is assigned
apply_scoring_row(row, lookup) ==
    IF LookupRaises(lookup)
    THEN [status |-> "raised", total |-> 0, bonus |-> 0,
          classified |-> classifier_calls(lookup)]
    ELSE LET ai_intent == compute_scientific_intent_score(lookup)
             bonus == (ai_intent * 20) \div 100
         IN  [status |-> "ok",
              total |-> Min(calculate_propensity_score(row) + bonus, 100),
              bonus |-> bonus,
              classified |-> classifier_calls(lookup)]

\* ------------------------------------------------------------------------
\* Lead attribute sets submitted through the API in this model
\* ------------------------------------------------------------------------
DirectorOfToxicology ==
    [title |-> {"director", "toxicology"}, recent_publication |-> TRUE,
     publication_year |-> CurrentYear, publication_title |-> {"3d", "dili"},
     company_funding |-> {"series b"}, location |-> {"cambridge, ma"}]
ResearchScientist ==
    [title |-> {"scientist"}, recent_publication |-> FALSE,
     publication_year |-> NULL, publication_title |-> {},
     company_funding |-> {"seed"}, location |-> {"boston"}]

LeadInputs == {DirectorOfToxicology, ResearchScientist}

\* Fields a LeadUpdate request sets (model_dump(exclude_none=True))
LeadUpdates ==
    {[title |-> {"director", "toxicology"}]}

\* ------------------------------------------------------------------------
\* State: the leads table and the request handlers in flight
\* ------------------------------------------------------------------------
VARIABLES
    sched,       \* how requests are served: "concurrent", "one_at_a_time", "per_owner"
    leads,       \* committed rows of the leads table
    nextId,      \* the next fresh id (uuid4: no id is ever handed out twice)
    pc,          \* pc[s]: position of the handler served by session s
    cur_user,    \* cur_user[s]: current_user.id of the request
    loaded,      \* loaded[s]: rows (id, attributes) the handler has read for scoring
    snap,        \* snap[s]: `leads` of update_lead_ranks, ids in query order
    mutated,     \* mutated[s]: the request committed a scoring-affecting mutation
    recomputed   \* recomputed[s]: update_lead_ranks completed after that mutation

leadVars == <<leads, nextId>>
sessVars == <<pc, cur_user, loaded, snap, mutated, recomputed>>

\* State of the scorers called on their own, of the weight configuration,
\* of the Redis cache and of the rate limiter
VARIABLES
    sc_in,            \* the call: which scorer, its weights, the lead or row
    sc_out,           \* what the call produced
    session_weights,  \* st.session_state.scoring_weights
    leads_df,         \* st.session_state.leads_df and the weights that scored it
    prefs,            \* current_user.preferences["scoring_weights"]
    constructed,      \* the last scorer construction: weights given, outcome
    store,            \* Redis: the value under the cache key, or none
    cpc,              \* cpc[c]: position of caller c in the `cached` wrapper
    cres,             \* cres[c]: the result caller c holds
    computations,     \* executions of the wrapped function so far
    rl_key,           \* Redis: the counter under the rate-limit key, or NULL
    rl_pc,            \* rl_pc[c]: position of caller c in check_rate_limit
    rl_current,       \* rl_current[c]: `current` as read by caller c
    rl_admitted,      \* requests let through in the window
    rl_ttl            \* Redis: whether the rate-limit key carries an expiry

\* State of a scorer called repeatedly on one unchanged input
VARIABLES
    rep_call,         \* the call that is repeated: scorer, weights, lead or row
    rep_log,          \* what each call returned, in order
    now_year          \* datetime.now().year

VARIABLES
    ex_store,         \* Redis: per key the value held and its expiry time
    ex_now,           \* Redis server clock, in seconds
    ex_pending,       \* ttl of a set_many between its MSET and its EXPIRE, else 0
    ex_got            \* what the last Cache.get returned

VARIABLES
    rt_upstream,      \* what the upstream answers to the attempts still to come
    rt_log            \* the calls made: the attempts of each and what it returned

VARIABLES
    cr_used,          \* usage_stats["leads_created_this_month"] of the owner, as stored
    cr_emails,        \* committed leads of the owner: how many rows hold each email
    cr_req            \* cr_req[r]: the creating request r and how far it has got

repeatVars == <<rep_call, rep_log, now_year>>
ext4Vars == <<cr_used, cr_emails, cr_req>>
ext3Vars == <<rt_upstream, rt_log, ext4Vars>>
ext2Vars == <<ex_store, ex_now, ex_pending, ex_got, ext3Vars>>
extVars == <<repeatVars, ext2Vars>>

scoreVars == <<sc_in, sc_out>>
weightVars == <<session_weights, leads_df, prefs, constructed>>
cacheVars == <<store, cpc, cres, computations>>
rateVars == <<rl_key, rl_pc, rl_current, rl_admitted, rl_ttl>>

\* the ids a request can name and find
LeadIds == {l.id : l \in leads}

\* a SELECT without the WHERE user_id clause
LeadsOf_unscoped(u) == leads

LeadsOf(u) == {l \in leads : l.user_id = u}
Row(id) == CHOOSE l \in leads : l.id = id
Exists(id) == \E l \in leads : l.id = id

\* created_at is server_default func.now(), the time of the inserting
\* transaction: equal for the leads of one bulk request, later for every
\* later transaction.  The id of the transaction's first lead stands for it.
\* a lead inserted with a rank already set
NewLead_ranked(id, u, data, score) ==
    [id |-> id, user_id |-> u, attrs |-> data, propensity_score |-> score,
     rank |-> 1, created_at |-> nextId]

NewLead(id, u, data, score) ==
    [id |-> id, user_id |-> u, attrs |-> data, propensity_score |-> score,
     rank |-> NULL, created_at |-> nextId]

\* setattr(lead, field, value) for every field of the update
ApplyUpdate(attrs, upd) ==
    [f \in DOMAIN attrs |-> IF f \in DOMAIN upd THEN upd[f] ELSE attrs[f]]

\* ORDER BY propensity_score DESC: PostgreSQL puts NULL first in a descending
\* order and leaves the order of equal keys unspecified.
SortKeyAscending(l) == IF l.propensity_score = NULL THEN 101 ELSE 100 - l.propensity_score
SortKey(l) == IF l.propensity_score = NULL THEN 101 ELSE l.propensity_score

OrderByScoreDesc(rows) ==
    LET n == Cardinality(rows)
        ids == {l.id : l \in rows}
    IN  {q \in [1..n -> ids] :
            /\ \A i, j \in 1..n : i # j => q[i] # q[j]
            /\ \A i, j \in 1..n :
                 i < j => SortKey(CHOOSE l \in rows : l.id = q[i])
                          >= SortKey(CHOOSE l \in rows : l.id = q[j])}

\* position of id in a snapshot, 0 when absent
PosIn(q, id) == IF \E i \in DOMAIN q : q[i] = id
                THEN CHOOSE i \in DOMAIN q : q[i] = id ELSE 0

InitLeads ==
    /\ leads = {}
    /\ nextId = 1
    /\ pc = [s \in Sessions |-> "idle"]
    /\ cur_user = [s \in Sessions |-> 1]
    /\ loaded = [s \in Sessions |-> {}]
    /\ snap = [s \in Sessions |-> <<>>]
    /\ mutated = [s \in Sessions |-> FALSE]
    /\ recomputed = [s \in Sessions |-> FALSE]

\* A request is taken up by the first free session (sessions are
\* interchangeable).  Served one at a time, it starts only when no other
\* request is in flight; served concurrently, the requests are those of one
\* owner.  Served per owner, the requests of different owners run
\* concurrently and those of one owner one after the other: session s
\* serves owner s.
Admitted(s, u) ==
    IF sched = "per_owner"
    THEN u = s
    ELSE /\ \A t \in Sessions : t < s => pc[t] # "idle"
         /\ IF sched = "one_at_a_time"
            THEN \A t \in Sessions : pc[t] = "idle"
            ELSE u = 1

\* leads that may ever be created
LeadLimit ==
    CASE sched = "one_at_a_time" -> MaxLeads
      [] sched = "per_owner" -> MaxLeadsScopes
      [] OTHER -> MaxLeadsConcurrent

Begin(s, u, next, mut) ==
    /\ Admitted(s, u)
    /\ pc' = [pc EXCEPT ![s] = next]
    /\ cur_user' = [cur_user EXCEPT ![s] = u]
    /\ mutated' = [mutated EXCEPT ![s] = mut]
    /\ recomputed' = [recomputed EXCEPT ![s] = FALSE]

\* POST /leads
create_lead(s) ==
    /\ pc[s] = "idle"
    /\ nextId <= LeadLimit
    /\ \E u \in Owners, data \in LeadInputs :
         /\ leads' = leads \cup
              {NewLead(nextId, u, data, SS_calculate_score(data, DefaultWeights, CurrentYear))}
         /\ Begin(s, u, "rank_read", TRUE)
    /\ nextId' = nextId + 1
    /\ UNCHANGED <<sched, loaded, snap>>
    /\ UNCHANGED <<scoreVars, weightVars, cacheVars, rateVars, extVars>>

\* POST /leads/bulk/create
bulk_create_leads(s) ==
    /\ pc[s] = "idle"
    /\ \E u \in Owners, n \in 1..MaxBulk, calculate_scores \in BOOLEAN :
         /\ nextId + n - 1 <= LeadLimit
         /\ \E batch \in [1..n -> LeadInputs] :
              leads' = leads \cup
                {NewLead(nextId + i - 1, u, batch[i],
                         IF calculate_scores
                         THEN SS_calculate_score(batch[i], DefaultWeights, CurrentYear)
                         ELSE NULL) : i \in 1..n}
         /\ nextId' = nextId + n
         /\ Begin(s, u, "rank_read", TRUE)
    /\ UNCHANGED <<sched, loaded, snap>>
    /\ UNCHANGED <<scoreVars, weightVars, cacheVars, rateVars, extVars>>

\* PUT /leads/{lead_id}: sets the fields and commits; no rescoring, no re-ranking
update_lead(s) ==
    /\ pc[s] = "idle"
    /\ \E u \in Owners, id \in LeadIds, upd \in LeadUpdates :
         /\ Exists(id) /\ Row(id).user_id = u
         /\ leads' = (leads \ {Row(id)}) \cup
                       {[Row(id) EXCEPT !.attrs = ApplyUpdate(@, upd)]}
         /\ Begin(s, u, "returning", TRUE)
    /\ UNCHANGED <<sched, nextId, loaded, snap>>
    /\ UNCHANGED <<scoreVars, weightVars, cacheVars, rateVars, extVars>>

\* DELETE /leads/{lead_id}
delete_lead(s) ==
    /\ pc[s] = "idle"
    /\ \E u \in Owners, id \in LeadIds :
         /\ Exists(id) /\ Row(id).user_id = u
         /\ leads' = leads \ {Row(id)}
         /\ Begin(s, u, "rank_read", TRUE)
    /\ UNCHANGED <<sched, nextId, loaded, snap>>
    /\ UNCHANGED <<scoreVars, weightVars, cacheVars, rateVars, extVars>>

\* POST /leads/{lead_id}/score, up to the computation of the new score
recalculate_score(s) ==
    /\ pc[s] = "idle"
    /\ \E u \in Owners, id \in LeadIds :
         /\ Exists(id) /\ Row(id).user_id = u
         /\ loaded' = [loaded EXCEPT ![s] = {[id |-> id, attrs |-> Row(id).attrs]}]
         /\ Begin(s, u, "score_write", FALSE)
    /\ UNCHANGED <<sched, leadVars, snap>>
    /\ UNCHANGED <<scoreVars, weightVars, cacheVars, rateVars, extVars>>

\* POST /leads/bulk/recalculate-scores, up to the computation of the new scores
recalculate_all_scores(s) ==
    /\ pc[s] = "idle"
    /\ \E u \in Owners :
         /\ loaded' = [loaded EXCEPT ![s] =
                          {[id |-> l.id, attrs |-> l.attrs] : l \in LeadsOf(u)}]
         /\ Begin(s, u, "score_write", FALSE)
    /\ UNCHANGED <<sched, leadVars, snap>>
    /\ UNCHANGED <<scoreVars, weightVars, cacheVars, rateVars, extVars>>

\* The commit of the recalculated scores.  An UPDATE of a row that another
\* request has deleted either matches nothing or fails the flush.
commit_scores(s) ==
    /\ pc[s] = "score_write"
    /\ LET scored(l) ==
             IF \E r \in loaded[s] : r.id = l.id
             THEN [l EXCEPT !.propensity_score =
                     SS_calculate_score((CHOOSE r \in loaded[s] : r.id = l.id).attrs,
                                        DefaultWeights, CurrentYear)]
             ELSE l
           missing == \E r \in loaded[s] : ~Exists(r.id)
       IN  \/ /\ leads' = {scored(l) : l \in leads}
              /\ pc' = [pc EXCEPT ![s] = "rank_read"]
              /\ mutated' = [mutated EXCEPT ![s] = (loaded[s] # {})]
           \/ /\ missing
              /\ leads' = leads
              /\ pc' = [pc EXCEPT ![s] = "failed"]
              /\ UNCHANGED mutated
    /\ loaded' = [loaded EXCEPT ![s] = {}]
    /\ UNCHANGED <<sched, nextId, cur_user, snap, recomputed>>
    /\ UNCHANGED <<scoreVars, weightVars, cacheVars, rateVars, extVars>>

\* update_lead_ranks: the SELECT ... ORDER BY propensity_score DESC
update_lead_ranks_read(s) ==
    /\ pc[s] = "rank_read"
    /\ \E q \in OrderByScoreDesc(LeadsOf(cur_user[s])) :
         snap' = [snap EXCEPT ![s] = q]
    /\ pc' = [pc EXCEPT ![s] = "rank_write"]
    /\ UNCHANGED <<sched, leadVars, cur_user, loaded, mutated, recomputed>>
    /\ UNCHANGED <<scoreVars, weightVars, cacheVars, rateVars, extVars>>

\* update_lead_ranks: lead.rank = rank for every lead read, then the commit
update_lead_ranks_commit(s) ==
    /\ pc[s] = "rank_write"
    /\ LET ranked(l) == IF PosIn(snap[s], l.id) # 0
                        THEN [l EXCEPT !.rank = PosIn(snap[s], l.id)] ELSE l
           missing == \E i \in DOMAIN snap[s] : ~Exists(snap[s][i])
       IN  \/ /\ leads' = {ranked(l) : l \in leads}
              /\ pc' = [pc EXCEPT ![s] = "returning"]
              /\ recomputed' = [recomputed EXCEPT ![s] = TRUE]
           \/ /\ missing
              /\ leads' = leads
              /\ pc' = [pc EXCEPT ![s] = "failed"]
              /\ UNCHANGED recomputed
    /\ snap' = [snap EXCEPT ![s] = <<>>]
    /\ UNCHANGED <<sched, nextId, cur_user, loaded, mutated>>
    /\ UNCHANGED <<scoreVars, weightVars, cacheVars, rateVars, extVars>>

\* the response (or the error) is sent and the session is closed
return(s) ==
    /\ pc[s] \in {"returning", "failed"}
    /\ pc' = [pc EXCEPT ![s] = "idle"]
    /\ mutated' = [mutated EXCEPT ![s] = FALSE]
    /\ recomputed' = [recomputed EXCEPT ![s] = FALSE]
    /\ cur_user' = [cur_user EXCEPT ![s] = 1]
    /\ UNCHANGED <<sched, leadVars, loaded, snap>>
    /\ UNCHANGED <<scoreVars, weightVars, cacheVars, rateVars, extVars>>

leadsAll == <<sched, leads, nextId, pc, cur_user, loaded, snap, mutated, recomputed>>

vars == <<leadsAll, scoreVars, weightVars, cacheVars, rateVars, extVars>>

\* ------------------------------------------------------------------------
\* The scorers called on their own
\* ------------------------------------------------------------------------
\* identifiers the search returns at most (retmax)
MaxPubs == 2

\* Weight configurations that pass the constructor: the default one, and
\* any integers that sum to 100, the sign of a weight is not looked at.
WeightValues == {-50, 0, 100, 150}
WeightConfigs ==
    {DefaultWeights} \cup
    {w \in [role_fit : WeightValues, publication : WeightValues,
            funding : WeightValues, location : WeightValues] :
        w.role_fit + w.publication + w.funding + w.location = 100}

\* text that holds none of the keywords
NoKeywords == {}

ScoredTitles ==
    {NoKeywords, {"toxicology"}, {"3d"}, {"scientist"}, {"director"},
     {"director", "toxicology"}, {"liver"}}
ScoredFundings == {NoKeywords, {"series a"}, {"seed"}}
ScoredLocations == {NoKeywords, {"cambridge, ma", "cambridge"}, {"london"}}

ScoredLeads ==
    [title : ScoredTitles,
     recent_publication : BOOLEAN,
     publication_year : {NULL, CurrentYear, CurrentYear - 3, CurrentYear - 6},
     publication_title : {NoKeywords, {"dili"}},
     company_funding : ScoredFundings,
     location : ScoredLocations]

PipelineRows ==
    [title : {NoKeywords, {"toxicology"}},
     research_area : {NoKeywords, {"toxicity"}},
     last_publication_year : {NULL, 2022, CurrentYear},
     funding_stage : {"None", "Series A", "Series C", "Seed"},
     person_location : {"boston", "austin"}]

AbstractOutcomes ==
    {"fetch_error", "short", "HIGH", "MEDIUM", "LOW", "UNSURE", "classifier_error"}

Lookups ==
    {[search |-> "error", abstracts |-> <<>>]} \cup
    {[search |-> "ok", abstracts |-> a] :
        a \in UNION {[1..n -> AbstractOutcomes] : n \in 0..MaxPubs}}

NoCall == [impl |-> "none"]
NoResult == [status |-> "none", total |-> 0, bonus |-> 0, classified |-> 0]

ScoreCalls ==
    {[impl |-> i, weights |-> w, lead |-> l] :
        i \in {"ScoringService", "PropensityScorer"}, w \in WeightConfigs,
        l \in ScoredLeads \cup LeadInputs}
    \cup
    {[impl |-> "pipeline", row |-> r, lookup |-> k] : r \in PipelineRows, k \in Lookups}

ScoreIdle == sc_in = NoCall /\ sc_out = NoResult

\* ScoringService(custom_weights).calculate_score(lead)
ScoringService_calculate_score ==
    /\ sc_in.impl = "ScoringService"
    /\ sc_out = NoResult
    /\ sc_out' = [status |-> "ok",
                  total |-> SS_calculate_score(sc_in.lead, sc_in.weights, CurrentYear),
                  bonus |-> 0, classified |-> 0]
    /\ UNCHANGED <<sc_in, leadsAll, extVars, weightVars, cacheVars, rateVars>>

\* PropensityScorer(weights).calculate_score(lead)
PropensityScorer_calculate_score ==
    /\ sc_in.impl = "PropensityScorer"
    /\ sc_out = NoResult
    /\ sc_out' = [status |-> "ok",
                  total |-> PS_calculate_score(sc_in.lead, sc_in.weights, CurrentYear),
                  bonus |-> 0, classified |-> 0]
    /\ UNCHANGED <<sc_in, leadsAll, extVars, weightVars, cacheVars, rateVars>>

\* apply_scoring(df) on a frame of one row
apply_scoring ==
    /\ sc_in.impl = "pipeline"
    /\ sc_out = NoResult
    /\ sc_out' = apply_scoring_row(sc_in.row, sc_in.lookup)
    /\ UNCHANGED <<sc_in, leadsAll, extVars, weightVars, cacheVars, rateVars>>

NextScore ==
    \/ ScoringService_calculate_score
    \/ PropensityScorer_calculate_score
    \/ apply_scoring

\* ------------------------------------------------------------------------
\* Weight configuration: the sidebar of the Streamlit application, the
\* preferences endpoint, and the constructors of the two scorers
\* ------------------------------------------------------------------------
Total(w) == w.role_fit + w.publication + w.funding + w.location

\* positions of the four sliders
SliderConfigs ==
    [role_fit : {30, 50}, publication : {40, 50}, funding : {0, 20}, location : {0, 10}]

\* the argument left out (None)
NoWeights == [given |-> FALSE]
Given(w) == [given |-> TRUE, weights |-> w]

\* ScoringService.__init__: `custom_weights or {defaults}`, then the sum is
\* checked.  The result is the scorer's weights, or the ValueError.
ScoringService_init(custom_weights) ==
    LET weights == IF custom_weights.given THEN custom_weights.weights ELSE DefaultWeights
    IN  [weights |-> weights,
         outcome |-> IF Total(weights) # 100 THEN "ValueError" ELSE "ok"]

\* PropensityScorer.__init__: the same check
PropensityScorer_init_unchecked(weights) ==
    [weights |-> IF weights.given THEN weights.weights ELSE DefaultWeights,
     outcome |-> "ok"]
PropensityScorer_init(weights) ==
    LET w == IF weights.given THEN weights.weights ELSE DefaultWeights
    IN  [weights |-> w,
         outcome |-> IF Total(w) # 100 THEN "ValueError" ELSE "ok"]

\* UserPreferences.validate_weights: TRUE when the value is accepted
validate_weights(v) == ~v.given \/ Total(v.weights) = 100

NotConstructed == [weights |-> DefaultWeights, outcome |-> "none"]
\* the frame of leads: absent, loaded but not scored, or scored with weights
NoFrame == [present |-> FALSE, scored |-> FALSE, scored_with |-> DefaultWeights]
RawFrame == [present |-> TRUE, scored |-> FALSE, scored_with |-> DefaultWeights]
Frame(w) == [present |-> TRUE, scored |-> TRUE, scored_with |-> w]

InitWeights ==
    /\ session_weights = DefaultWeights
    /\ leads_df = NoFrame
    /\ prefs = NoWeights
    /\ constructed = NotConstructed

\* sidebar, "Apply Weights": the sliders are stored, then, with leads
\* loaded, a scorer is constructed and the frame is scored and ranked again
apply_weights ==
    \E w \in SliderConfigs :
        /\ session_weights' = w
        /\ IF leads_df.present
           THEN LET scorer == PropensityScorer_init(Given(w))
                IN  /\ constructed' = scorer
                    /\ leads_df' = IF scorer.outcome = "ok"
                                   THEN Frame(scorer.weights) ELSE leads_df
           ELSE UNCHANGED <<leads_df, constructed>>
        /\ UNCHANGED <<prefs, leadsAll, extVars, scoreVars, cacheVars, rateVars>>

\* "Load Sample Data": load_sample_data constructs the scorer from the
\* stored weights, scores the sample, and the result becomes the frame
load_sample_data ==
    LET scorer == PropensityScorer_init(Given(session_weights))
    IN  /\ constructed' = scorer
        /\ leads_df' = IF scorer.outcome = "ok" THEN Frame(scorer.weights) ELSE leads_df
        /\ UNCHANGED <<session_weights, prefs, leadsAll, extVars, scoreVars, cacheVars, rateVars>>

\* "Upload CSV" (and the PubMed search): the frame is replaced by the new
\* rows first, then a scorer is constructed and the frame is scored
upload_csv ==
    LET scorer == PropensityScorer_init(Given(session_weights))
    IN  /\ constructed' = scorer
        /\ leads_df' = IF scorer.outcome = "ok" THEN Frame(scorer.weights) ELSE RawFrame
        /\ UNCHANGED <<session_weights, prefs, leadsAll, extVars, scoreVars, cacheVars, rateVars>>

\* "Reset Weights to Default"
reset_weights ==
    /\ session_weights' = DefaultWeights
    /\ UNCHANGED <<leads_df, prefs, constructed, leadsAll, extVars, scoreVars, cacheVars, rateVars>>

\* PUT /users/me/preferences: the body is validated before the handler
\* runs; the handler stores the fields that were given
update_preferences ==
    \E v \in {NoWeights} \cup {Given(w) : w \in SliderConfigs} :
        /\ prefs' = IF validate_weights(v) /\ v.given THEN v ELSE prefs
        /\ UNCHANGED <<session_weights, leads_df, constructed,
                       leadsAll, extVars, scoreVars, cacheVars, rateVars>>

\* a scoring service constructed with or without custom weights
construct_scoring_service ==
    \E c \in {NoWeights} \cup {Given(w) : w \in SliderConfigs} :
        /\ constructed' = ScoringService_init(c)
        /\ UNCHANGED <<session_weights, leads_df, prefs,
                       leadsAll, extVars, scoreVars, cacheVars, rateVars>>

NextWeights ==
    \/ apply_weights
    \/ load_sample_data
    \/ upload_csv
    \/ reset_weights
    \/ update_preferences
    \/ construct_scoring_service

\* ------------------------------------------------------------------------
\* The `cached` wrapper around one function, called with the same arguments
\* (one cache key) by several callers within the key's time to live
\* ------------------------------------------------------------------------
NumCallers == 3
Callers == 1..NumCallers

\* no value under the key / no result yet; results are positive
Nothing == 0

InitCache ==
    /\ store = Nothing
    /\ cpc = [c \in Callers |-> "idle"]
    /\ cres = [c \in Callers |-> Nothing]
    /\ computations = 0

\* cached_value = await Cache.get(cache_key); a value found is returned
cached_get(c) ==
    /\ cpc[c] = "idle"
    /\ IF store # Nothing
       THEN /\ cpc' = [cpc EXCEPT ![c] = "returned"]
            /\ cres' = [cres EXCEPT ![c] = store]
       ELSE /\ cpc' = [cpc EXCEPT ![c] = "miss"]
            /\ UNCHANGED cres
    /\ UNCHANGED <<store, computations, leadsAll, extVars, scoreVars, weightVars, rateVars>>

\* result = await func(*args, **kwargs): one more execution of the function,
\* whose result is what the function reads at that moment
cached_execute(c) ==
    /\ cpc[c] = "miss"
    /\ computations' = computations + 1
    /\ cres' = [cres EXCEPT ![c] = computations + 1]
    /\ cpc' = [cpc EXCEPT ![c] = "computed"]
    /\ UNCHANGED <<store, leadsAll, extVars, scoreVars, weightVars, rateVars>>

\* await Cache.set(cache_key, result, ttl=ttl); return result
cached_set(c) ==
    /\ cpc[c] = "computed"
    /\ store' = cres[c]
    /\ cpc' = [cpc EXCEPT ![c] = "returned"]
    /\ UNCHANGED <<cres, computations, leadsAll, extVars, scoreVars, weightVars, rateVars>>

NextCache ==
    \E c \in Callers :
        \/ cached_get(c)
        \/ cached_execute(c)
        \/ cached_set(c)

\* ------------------------------------------------------------------------
\* RateLimiter.check_rate_limit for one user and endpoint (one key), within
\* one window of the key
\* ------------------------------------------------------------------------
MaxRequests == 2
NumClients == 3
Clients == 1..NumClients

InitRate ==
    /\ rl_key = NULL
    /\ rl_pc = [c \in Clients |-> "idle"]
    /\ rl_current = [c \in Clients |-> NULL]
    /\ rl_admitted = 0
    /\ rl_ttl = FALSE

\* current = await redis.get(key)
rate_limit_get(c) ==
    /\ rl_pc[c] = "idle"
    /\ rl_current' = [rl_current EXCEPT ![c] = rl_key]
    /\ rl_pc' = [rl_pc EXCEPT ![c] = "read"]
    /\ UNCHANGED <<rl_key, rl_admitted, rl_ttl, leadsAll, extVars, scoreVars, weightVars, cacheVars>>

\* first request in the window: redis.setex(key, window, 1), allowed
rate_limit_setex(c) ==
    /\ rl_pc[c] = "read"
    /\ rl_current[c] = NULL
    /\ rl_key' = 1
    /\ rl_ttl' = TRUE
    /\ rl_admitted' = rl_admitted + 1
    /\ rl_pc' = [rl_pc EXCEPT ![c] = "idle"]
    /\ rl_current' = [rl_current EXCEPT ![c] = NULL]
    /\ UNCHANGED <<leadsAll, extVars, scoreVars, weightVars, cacheVars>>

\* current >= max_requests: not allowed, the dependency answers 429
rate_limit_reject(c) ==
    /\ rl_pc[c] = "read"
    /\ rl_current[c] # NULL
    /\ rl_current[c] >= MaxRequests
    /\ rl_pc' = [rl_pc EXCEPT ![c] = "idle"]
    /\ rl_current' = [rl_current EXCEPT ![c] = NULL]
    /\ UNCHANGED <<rl_key, rl_admitted, rl_ttl, leadsAll, extVars, scoreVars, weightVars, cacheVars>>

\* otherwise redis.incr(key), allowed; INCR of a key that is gone creates
\* it with the value 1 and without expiry
rate_limit_incr(c) ==
    /\ rl_pc[c] = "read"
    /\ rl_current[c] # NULL
    /\ rl_current[c] < MaxRequests
    /\ rl_key' = IF rl_key = NULL THEN 1 ELSE rl_key + 1
    /\ rl_ttl' = (rl_key # NULL /\ rl_ttl)
    /\ rl_admitted' = rl_admitted + 1
    /\ rl_pc' = [rl_pc EXCEPT ![c] = "idle"]
    /\ rl_current' = [rl_current EXCEPT ![c] = NULL]
    /\ UNCHANGED <<leadsAll, extVars, scoreVars, weightVars, cacheVars>>

NextRate ==
    \E c \in Clients :
        \/ rate_limit_get(c)
        \/ rate_limit_setex(c)
        \/ rate_limit_reject(c)
        \/ rate_limit_incr(c)

\* the window of the key has elapsed: Redis removes a key that carries an
\* expiry, and a new window begins
rate_limit_key_expires ==
    /\ rl_key # NULL
    /\ rl_ttl
    /\ rl_key' = NULL
    /\ rl_ttl' = FALSE
    /\ rl_admitted' = 0
    /\ UNCHANGED <<rl_pc, rl_current, leadsAll, extVars, scoreVars, weightVars, cacheVars>>

NextWindow ==
    \/ \E c \in Clients : rate_limit_get(c)
    \/ \E c \in Clients : rate_limit_setex(c)
    \/ \E c \in Clients : rate_limit_reject(c)
    \/ \E c \in Clients : rate_limit_incr(c)
    \/ rate_limit_key_expires

Next ==
    \E s \in Sessions :
        \/ create_lead(s)
        \/ bulk_create_leads(s)
        \/ update_lead(s)
        \/ delete_lead(s)
        \/ recalculate_score(s)
        \/ recalculate_all_scores(s)
        \/ commit_scores(s)
        \/ update_lead_ranks_read(s)
        \/ update_lead_ranks_commit(s)
        \/ return(s)

\* ------------------------------------------------------------------------
\* A scorer called again on an unchanged lead with unchanged weights, while
\* the calendar and the outside services go on
\* ------------------------------------------------------------------------
MaxCalls == 2
MaxYears == 3

RepeatCalls ==
    {c \in ScoreCalls : c.impl # "pipeline" /\ c.weights = DefaultWeights}
    \cup {[impl |-> "pipeline", row |-> r] : r \in PipelineRows}

RepeatIdle == rep_call = NoCall /\ rep_log = <<>> /\ now_year = CurrentYear

\* calculate_score and the four sub-scores of get_score_breakdown, computed
\* with current_year = datetime.now().year
score_again ==
    /\ rep_call.impl \in {"ScoringService", "PropensityScorer"}
    /\ Len(rep_log) < MaxCalls
    /\ LET lead == rep_call.lead
           w == rep_call.weights
           ss == rep_call.impl = "ScoringService"
       IN  rep_log' = Append(rep_log,
             [status |-> "ok", bonus |-> 0, lookups |-> 0,
              total |-> IF ss THEN SS_calculate_score(lead, w, now_year)
                        ELSE PS_calculate_score(lead, w, now_year),
              parts |-> IF ss
                        THEN <<SS_score_role_fit(lead, w), SS_score_publication(lead, w, now_year),
                               SS_score_funding(lead, w), SS_score_location(lead, w)>>
                        ELSE <<PS_score_role_fit(lead, w), PS_score_publication(lead, w, now_year),
                               PS_score_funding(lead, w), PS_score_location(lead, w)>>])
    /\ UNCHANGED <<rep_call, now_year, leadsAll, scoreVars, weightVars, cacheVars, rateVars, ext2Vars>>

\* apply_scoring on the same row: compute_scientific_intent_score asks the
\* outside services every time, and they answer as they do at that moment
apply_scoring_again ==
    /\ rep_call.impl = "pipeline"
    /\ Len(rep_log) < MaxCalls
    /\ \E k \in Lookups :
         LET r == apply_scoring_row(rep_call.row, k)
         IN  rep_log' = Append(rep_log,
               [status |-> r.status, bonus |-> r.bonus, lookups |-> 1,
                total |-> r.total, parts |-> <<>>])
    /\ UNCHANGED <<rep_call, now_year, leadsAll, scoreVars, weightVars, cacheVars, rateVars, ext2Vars>>

\* 1 January
new_year ==
    /\ now_year < CurrentYear + MaxYears
    /\ now_year' = now_year + 1
    /\ UNCHANGED <<rep_call, rep_log, leadsAll, scoreVars, weightVars, cacheVars, rateVars, ext2Vars>>

NextRepeat ==
    \/ score_again
    \/ apply_scoring_again
    \/ new_year

\* ------------------------------------------------------------------------
\* Cache: values stored with a time to live
\* ------------------------------------------------------------------------
NumKeys == 2
MaxTTL == 2
MaxTime == 4

\* a key Redis does not hold
NoEntry == [present |-> FALSE, stored_at |-> 0, expires_at |-> NULL]
\* a Cache.get that returned None
Miss == [hit |-> FALSE, age |-> 0, ttl |-> 0]

InitExpiry ==
    /\ ex_store = [k \in 1..NumKeys |-> [entry |-> NoEntry, ttl |-> 0]]
    /\ ex_now = 0
    /\ ex_pending = 0
    /\ ex_got = Miss

\* Redis drops a key once its expiry time is reached
Live(k) ==
    /\ ex_store[k].entry.present
    /\ ex_store[k].entry.expires_at # NULL => ex_now < ex_store[k].entry.expires_at

\* Cache.set(key, value, ttl): one SET key value EX ttl
Cache_set ==
    /\ \E k \in 1..NumKeys, ttl \in 1..MaxTTL :
         ex_store' = [ex_store EXCEPT ![k] =
                        [entry |-> [present |-> TRUE, stored_at |-> ex_now,
                                    expires_at |-> ex_now + ttl],
                         ttl |-> ttl]]
    /\ UNCHANGED <<ex_now, ex_pending, ex_got, ext3Vars>>
    /\ UNCHANGED <<leadsAll, scoreVars, weightVars, cacheVars, rateVars, repeatVars>>

\* Cache.set_many(mapping, ttl): MSET stores every value without expiry
Cache_set_many_mset ==
    /\ ex_pending = 0
    /\ \E ttl \in 1..MaxTTL :
         /\ ex_store' = [k \in 1..NumKeys |->
                          [entry |-> [present |-> TRUE, stored_at |-> ex_now,
                                      expires_at |-> NULL],
                           ttl |-> ttl]]
         /\ ex_pending' = ttl
    /\ UNCHANGED <<ex_now, ex_got, ext3Vars>>
    /\ UNCHANGED <<leadsAll, scoreVars, weightVars, cacheVars, rateVars, repeatVars>>

\* Cache.set_many: the pipeline of EXPIRE key ttl, executed as a second
\* round trip; EXPIRE counts from the time it runs and skips a missing key
Cache_set_many_expire ==
    /\ ex_pending # 0
    /\ ex_store' = [k \in 1..NumKeys |->
                      IF Live(k)
                      THEN [ex_store[k] EXCEPT !.entry.expires_at = ex_now + ex_pending]
                      ELSE ex_store[k]]
    /\ ex_pending' = 0
    /\ UNCHANGED <<ex_now, ex_got, ext3Vars>>
    /\ UNCHANGED <<leadsAll, scoreVars, weightVars, cacheVars, rateVars, repeatVars>>

\* Cache.get(key): the value, or None for a key Redis does not hold
Cache_get ==
    /\ \E k \in 1..NumKeys :
         ex_got' = IF Live(k)
                   THEN [hit |-> TRUE, age |-> ex_now - ex_store[k].entry.stored_at,
                         ttl |-> ex_store[k].ttl]
                   ELSE Miss
    /\ UNCHANGED <<ex_store, ex_now, ex_pending, ext3Vars>>
    /\ UNCHANGED <<leadsAll, scoreVars, weightVars, cacheVars, rateVars, repeatVars>>

\* a second passes
second_passes ==
    /\ ex_now < MaxTime
    /\ ex_now' = ex_now + 1
    /\ UNCHANGED <<ex_store, ex_pending, ex_got, ext3Vars>>
    /\ UNCHANGED <<leadsAll, scoreVars, weightVars, cacheVars, rateVars, repeatVars>>

NextExpiry ==
    \/ Cache_set
    \/ Cache_set_many_mset
    \/ Cache_set_many_expire
    \/ Cache_get
    \/ second_passes

\* ------------------------------------------------------------------------
\* Calls to the external PubMed service
\* ------------------------------------------------------------------------
\* attempts the upstream is asked to answer
MaxAttempts == 3

\* PubMedScraper.__init__
max_retries == 3

\* PubMedScraper.search_pubmed: one Entrez.esearch; whatever it raises is
\* printed and an empty list is returned
search_pubmed ==
    /\ rt_upstream # <<>>
    /\ rt_log' = Append(rt_log,
                        [attempts |-> <<Head(rt_upstream)>>,
                         result |-> IF Head(rt_upstream) = "ok" THEN "ids" ELSE "empty"])
    /\ rt_upstream' = Tail(rt_upstream)
    /\ UNCHANGED <<leadsAll, scoreVars, weightVars, cacheVars, rateVars, repeatVars>>
    /\ UNCHANGED <<ex_store, ex_now, ex_pending, ex_got, ext4Vars>>

\* fetch_recent_publications: one Entrez.esearch; whatever it raises leaves
\* the function
fetch_recent_publications ==
    /\ rt_upstream # <<>>
    /\ rt_log' = Append(rt_log,
                        [attempts |-> <<Head(rt_upstream)>>,
                         result |-> IF Head(rt_upstream) = "ok" THEN "ids" ELSE "error"])
    /\ rt_upstream' = Tail(rt_upstream)
    /\ UNCHANGED <<leadsAll, scoreVars, weightVars, cacheVars, rateVars, repeatVars>>
    /\ UNCHANGED <<ex_store, ex_now, ex_pending, ex_got, ext4Vars>>

NextRetry ==
    \/ search_pubmed
    \/ fetch_recent_publications

\* ------------------------------------------------------------------------
\* Lead creation of one owner: the monthly quota and the duplicate check
\* ------------------------------------------------------------------------
NumCreators == 2
\* rows the owner's requests may ask to add while the table holds fewer
MaxRows == 3
\* User.get_monthly_lead_limit, SubscriptionTier.FREE
MonthlyLeadLimit == 100

Emails == {"a@x.org", "b@x.org"}
\* lead_data.email is None
NoEmail == "None"

NoRequest == [pc |-> "idle", seen |-> 0, todo |-> <<>>, added |-> <<>>]

RowsHeld == cr_emails["a@x.org"] + cr_emails["b@x.org"] + cr_emails[NoEmail]

InitCreate(used) ==
    /\ cr_used = used
    /\ cr_emails = [e \in Emails \cup {NoEmail} |-> 0]
    /\ cr_req = [r \in 1..NumCreators |-> NoRequest]

\* User.has_reached_lead_limit, on the user row the request has loaded
has_reached_lead_limit(leads_this_month) == leads_this_month >= MonthlyLeadLimit

\* check_lead_quota answers 403
check_lead_quota_refused(r) ==
    /\ cr_req[r].pc = "idle"
    /\ has_reached_lead_limit(cr_used)
    /\ UNCHANGED <<cr_used, cr_emails, cr_req>>
    /\ UNCHANGED <<leadsAll, scoreVars, weightVars, cacheVars, rateVars, repeatVars>>
    /\ UNCHANGED <<ex_store, ex_now, ex_pending, ex_got, rt_upstream, rt_log>>

\* POST /leads: the user row is loaded and check_lead_quota passes
create_lead_admitted(r) ==
    /\ cr_req[r].pc = "idle"
    /\ ~has_reached_lead_limit(cr_used)
    /\ RowsHeld < MaxRows
    /\ \E e \in Emails \cup {NoEmail} :
         cr_req' = [cr_req EXCEPT ![r] =
                      [pc |-> "create_check", seen |-> cr_used, todo |-> <<e>>,
                       added |-> <<>>]]
    /\ UNCHANGED <<cr_used, cr_emails>>
    /\ UNCHANGED <<leadsAll, scoreVars, weightVars, cacheVars, rateVars, repeatVars>>
    /\ UNCHANGED <<ex_store, ex_now, ex_pending, ex_got, rt_upstream, rt_log>>

\* create_lead: the SELECT for a lead of the owner with this email; 400 when
\* one exists
create_lead_check(r) ==
    /\ cr_req[r].pc = "create_check"
    /\ LET e == cr_req[r].todo[1]
       IN  cr_req' = [cr_req EXCEPT ![r] =
                        IF e # NoEmail /\ cr_emails[e] > 0
                        THEN NoRequest
                        ELSE [@ EXCEPT !.pc = "create_insert"]]
    /\ UNCHANGED <<cr_used, cr_emails>>
    /\ UNCHANGED <<leadsAll, scoreVars, weightVars, cacheVars, rateVars, repeatVars>>
    /\ UNCHANGED <<ex_store, ex_now, ex_pending, ex_got, rt_upstream, rt_log>>

\* create_lead: db.add(lead), commit (and the ranks are updated)
create_lead_insert(r) ==
    /\ cr_req[r].pc = "create_insert"
    /\ LET e == cr_req[r].todo[1]
       IN  /\ cr_emails' = [cr_emails EXCEPT ![e] = @ + 1]
           /\ cr_req' = [cr_req EXCEPT ![r] =
                           [@ EXCEPT !.pc = "usage", !.todo = <<>>, !.added = <<e>>]]
    /\ UNCHANGED cr_used
    /\ UNCHANGED <<leadsAll, scoreVars, weightVars, cacheVars, rateVars, repeatVars>>
    /\ UNCHANGED <<ex_store, ex_now, ex_pending, ex_got, rt_upstream, rt_log>>

\* POST /leads/bulk/create with skip_duplicates (the default): the user row
\* is loaded and check_lead_quota passes
bulk_create_admitted(r) ==
    /\ cr_req[r].pc = "idle"
    /\ ~has_reached_lead_limit(cr_used)
    /\ \E n \in 1..MaxBulk :
         /\ RowsHeld + n <= MaxRows
         /\ \E batch \in [1..n -> Emails \cup {NoEmail}] :
              cr_req' = [cr_req EXCEPT ![r] =
                           [pc |-> "bulk_loop", seen |-> cr_used, todo |-> batch,
                            added |-> <<>>]]
    /\ UNCHANGED <<cr_used, cr_emails>>
    /\ UNCHANGED <<leadsAll, scoreVars, weightVars, cacheVars, rateVars, repeatVars>>
    /\ UNCHANGED <<ex_store, ex_now, ex_pending, ex_got, rt_upstream, rt_log>>

\* bulk_create_leads, one turn of the loop: the SELECT sees the committed
\* rows (the session does not flush the leads added so far: autoflush is
\* off); a duplicate is reported and skipped, another lead is added to the
\* session
bulk_create_item(r) ==
    /\ cr_req[r].pc = "bulk_loop"
    /\ cr_req[r].todo # <<>>
    /\ LET e == Head(cr_req[r].todo)
       IN  cr_req' = [cr_req EXCEPT ![r] =
                        [@ EXCEPT !.todo = Tail(@),
                                  !.added = IF e # NoEmail /\ cr_emails[e] > 0
                                            THEN @ ELSE Append(@, e)]]
    /\ UNCHANGED <<cr_used, cr_emails>>
    /\ UNCHANGED <<leadsAll, scoreVars, weightVars, cacheVars, rateVars, repeatVars>>
    /\ UNCHANGED <<ex_store, ex_now, ex_pending, ex_got, rt_upstream, rt_log>>

\* bulk_create_leads: the commit of the leads added (and, with
\* success_count > 0, the ranks are updated)
bulk_create_commit(r) ==
    /\ cr_req[r].pc = "bulk_loop"
    /\ cr_req[r].todo = <<>>
    /\ LET added == cr_req[r].added
       IN  /\ cr_emails' = [e \in DOMAIN cr_emails |->
                              cr_emails[e]
                              + Cardinality({i \in DOMAIN added : added[i] = e})]
           /\ cr_req' = [cr_req EXCEPT ![r] =
                           IF added = <<>> THEN NoRequest ELSE [@ EXCEPT !.pc = "usage"]]
    /\ UNCHANGED cr_used
    /\ UNCHANGED <<leadsAll, scoreVars, weightVars, cacheVars, rateVars, repeatVars>>
    /\ UNCHANGED <<ex_store, ex_now, ex_pending, ex_got, rt_upstream, rt_log>>

\* current_user.increment_usage("leads_created_this_month", success_count)
\* on the user row as the request loaded it, and the commit
increment_usage(r) ==
    /\ cr_req[r].pc = "usage"
    /\ cr_used' = cr_req[r].seen + Len(cr_req[r].added)
    /\ cr_req' = [cr_req EXCEPT ![r] = NoRequest]
    /\ UNCHANGED cr_emails
    /\ UNCHANGED <<leadsAll, scoreVars, weightVars, cacheVars, rateVars, repeatVars>>
    /\ UNCHANGED <<ex_store, ex_now, ex_pending, ex_got, rt_upstream, rt_log>>

NextCreate ==
    \E r \in 1..NumCreators :
        \/ check_lead_quota_refused(r)
        \/ create_lead_admitted(r)
        \/ create_lead_check(r)
        \/ create_lead_insert(r)
        \/ bulk_create_admitted(r)
        \/ bulk_create_item(r)
        \/ bulk_create_commit(r)
        \/ increment_usage(r)

\* nothing stored, nothing in flight, no call made
Ext2Idle == InitExpiry /\ rt_upstream = <<>> /\ rt_log = <<>> /\ InitCreate(0)

\* Requests of one owner (one scope), served concurrently.
InitOthers == ScoreIdle /\ InitWeights /\ InitCache /\ InitRate /\ RepeatIdle /\ Ext2Idle
Init == sched = "concurrent" /\ InitLeads /\ InitOthers
Spec == Init /\ [][Next]_vars

\* Requests of all owners, served one at a time.
InitSeq == sched = "one_at_a_time" /\ InitLeads /\ InitOthers
SpecSeq == InitSeq /\ [][Next]_vars

\* Requests of all owners: those of different owners concurrently, those of
\* one owner one after the other.
InitScopes == sched = "per_owner" /\ InitLeads /\ InitOthers
SpecScopes == InitScopes /\ [][Next]_vars

\* Requests of all owners, served one at a time, while the first owner
\* changes the scoring weights of their preferences.
NextPrefs ==
    \E s \in Sessions :
        \/ create_lead(s)
        \/ bulk_create_leads(s)
        \/ update_lead(s)
        \/ delete_lead(s)
        \/ recalculate_score(s)
        \/ recalculate_all_scores(s)
        \/ commit_scores(s)
        \/ update_lead_ranks_read(s)
        \/ update_lead_ranks_commit(s)
        \/ return(s)
        \/ update_preferences
SpecPrefs == InitSeq /\ [][NextPrefs]_vars

\* One call of a scorer, over every call of ScoreCalls.
InitLeadsIdle == sched = "one_at_a_time" /\ InitLeads
InitScore ==
    /\ InitLeadsIdle /\ InitWeights /\ InitCache /\ InitRate /\ RepeatIdle /\ Ext2Idle
    /\ sc_in \in ScoreCalls
    /\ sc_out = NoResult
SpecScore == InitScore /\ [][NextScore]_vars

\* The weight configuration being changed and used.
InitWeightsOnly ==
    /\ InitLeadsIdle /\ ScoreIdle /\ InitWeights /\ InitCache /\ InitRate /\ RepeatIdle
    /\ Ext2Idle
SpecWeights == InitWeightsOnly /\ [][NextWeights]_vars

\* Callers of one cached function.
SpecCache == InitWeightsOnly /\ [][NextCache]_vars

\* Requests of one user to one rate-limited endpoint.
SpecRate == InitWeightsOnly /\ [][NextRate]_vars

\* The same requests over several windows of the key.
SpecWindow == InitWeightsOnly /\ [][NextWindow]_vars

\* One call repeated, over every call of RepeatCalls.
InitRepeat ==
    /\ InitLeadsIdle /\ ScoreIdle /\ InitWeights /\ InitCache /\ InitRate /\ Ext2Idle
    /\ rep_call \in RepeatCalls
    /\ rep_log = <<>>
    /\ now_year = CurrentYear
SpecRepeat == InitRepeat /\ [][NextRepeat]_vars

\* Calls to PubMed, over every way the upstream can answer the attempts.
InitRetry ==
    /\ InitLeadsIdle /\ ScoreIdle /\ InitWeights /\ InitCache /\ InitRate /\ RepeatIdle
    /\ InitExpiry
    /\ rt_upstream \in [1..MaxAttempts -> {"ok", "transient", "permanent"}]
    /\ rt_log = <<>>
    /\ InitCreate(0)
SpecRetry == InitRetry /\ [][NextRetry]_vars

\* Creating requests of one owner who is within MaxRows leads of the month's
\* quota (and has deleted the leads created before).
InitQuota ==
    /\ InitLeadsIdle /\ ScoreIdle /\ InitWeights /\ InitCache /\ InitRate /\ RepeatIdle
    /\ InitExpiry /\ rt_upstream = <<>> /\ rt_log = <<>>
    /\ \E used \in (MonthlyLeadLimit - MaxRows)..MonthlyLeadLimit : InitCreate(used)
SpecCreate == InitQuota /\ [][NextCreate]_vars

\* Values stored with a ttl and read back while time passes.
SpecExpiry == InitWeightsOnly /\ [][NextExpiry]_vars

\* ------------------------------------------------------------------------
\* Rank maintenance: properties
\* ------------------------------------------------------------------------
RanksDense(u) ==
    /\ {l.rank : l \in LeadsOf(u)} = 1..Cardinality(LeadsOf(u))
    /\ \A a, b \in LeadsOf(u) : a.rank = b.rank => a = b

ScoreOrdered(u) ==
    \A a, b \in LeadsOf(u) :
        (a.propensity_score # NULL /\ b.propensity_score # NULL
            /\ a.propensity_score > b.propensity_score) => a.rank < b.rank

JustRecomputed(s) == pc[s] = "returning" /\ recomputed[s]

\* C1: when update_lead_ranks has completed for an owner with N leads, the
\* ranks of that owner's leads are exactly 1..N, without duplicates, and a
\* lead with a higher score has a smaller rank.
C1_RanksDenseAndOrdered ==
    \A s \in Sessions :
        JustRecomputed(s) => RanksDense(cur_user[s]) /\ ScoreOrdered(cur_user[s])

C1_Witness ==
    \E s \in Sessions :
        /\ JustRecomputed(s)
        /\ Cardinality(LeadsOf(cur_user[s])) = MaxLeads
        /\ \E a, b \in LeadsOf(cur_user[s]) :
             a.propensity_score = 100 /\ b.propensity_score = 40

\* C2: after a recompute, leads of one owner with equal scores are ranked
\* by ascending created_at, and by ascending id when created_at is equal too.
TieBreakBefore(a, b) ==
    \/ a.created_at < b.created_at
    \/ a.created_at = b.created_at /\ a.id < b.id

C2_TieBreakByCreatedAtThenId ==
    \A s \in Sessions :
        JustRecomputed(s) =>
            \A a, b \in LeadsOf(cur_user[s]) :
                (a.propensity_score # NULL
                    /\ a.propensity_score = b.propensity_score
                    /\ TieBreakBefore(a, b)) => a.rank < b.rank

\* C3: the write pass of a recompute leaves the scope with the ranking of
\* one complete snapshot: right after the commit of update_lead_ranks, every
\* lead of the owner that holds a rank holds the rank of its position in the
\* snapshot this recompute read, and none the rank another recompute wrote.
C3_WritePassIsOneSnapshot ==
    [][\A s \in Sessions :
          (pc[s] = "rank_write" /\ pc'[s] = "returning") =>
              \A l \in leads' :
                  (l.user_id = cur_user[s] /\ l.rank # NULL)
                      => l.rank = PosIn(snap[s], l.id)]_vars

\* C4: once every request in flight has finished, the ranks of every scope
\* are exactly 1..N in score order: no rank of an earlier recompute is left
\* next to the ranks of a later one.
Consistent == \A s \in Sessions : pc[s] = "idle"

C4_ConsistentWhenQuiescent ==
    Consistent => \A u \in Owners : RanksDense(u) /\ ScoreOrdered(u)

\* C5: a request that has committed a scoring-affecting mutation has
\* completed a rank recompute for its owner by the time it returns.
C5_MutationFollowedByRecompute ==
    \A s \in Sessions :
        (pc[s] = "returning" /\ mutated[s]) => recomputed[s]

\* ------------------------------------------------------------------------
\* C6: for every weight configuration that sums to 100 and every lead, the
\* total a scorer computes (ScoringService, PropensityScorer, and the
\* pipeline with or without the enrichment bonus) is an integer from 0 to
\* 100.
\* ------------------------------------------------------------------------
C6_ScoreWithinBounds ==
    sc_out.status = "ok" => sc_out.total \in 0..100

\* a call whose weighted sum lies above 100 (a weight above 100, all of it
\* earned) and whose total is 100
C6_Witness ==
    /\ sc_in.impl = "ScoringService"
    /\ sc_out.status = "ok"
    /\ sc_in.weights.role_fit > 100
    /\ SS_score_role_fit(sc_in.lead, sc_in.weights) = sc_in.weights.role_fit * 100
    /\ sc_out.total = 100

\* ------------------------------------------------------------------------
\* C7: a weight configuration that does not sum to 100 is rejected before
\* any scoring: the construction of the scorer ends in the error, the frame
\* is never scored or ranked with such weights, and the preferences never
\* hold them.
\* ------------------------------------------------------------------------
C7_InvalidWeightsRejected ==
    /\ Total(constructed.weights) # 100 => constructed.outcome \in {"ValueError", "none"}
    /\ leads_df.scored => Total(leads_df.scored_with) = 100
    /\ prefs.given => Total(prefs.weights) = 100

\* weights that do not sum to 100 were applied to a loaded frame: the
\* construction failed and the frame keeps the scores of the valid weights
C7_Witness ==
    /\ Total(session_weights) # 100
    /\ constructed.weights = session_weights
    /\ constructed.outcome = "ValueError"
    /\ leads_df.scored

\* ------------------------------------------------------------------------
\* C8: when several callers ask for the same key that is not yet in the
\* cache, the wrapped function is executed once and all callers get the
\* same result.
\* ------------------------------------------------------------------------
C8_SingleComputation ==
    /\ computations <= 1
    /\ \A c, d \in Callers :
         cpc[c] = "returned" /\ cpc[d] = "returned" => cres[c] = cres[d]

\* ------------------------------------------------------------------------
\* C9: no more than the configured maximum of requests is admitted within
\* one window.
\* ------------------------------------------------------------------------
C9_AdmittedWithinLimit == rl_admitted <= MaxRequests

\* ------------------------------------------------------------------------
\* C10: when the bibliographic lookup returns nothing or raises, the
\* enrichment bonus is 0 and the scoring of the lead still returns its base
\* score.
\* ------------------------------------------------------------------------
LookupEmptyOrError ==
    \/ sc_in.lookup.search = "error"
    \/ sc_in.lookup.abstracts = <<>>
    \/ \E i \in DOMAIN sc_in.lookup.abstracts : sc_in.lookup.abstracts[i] = "fetch_error"

C10_EnrichmentDegradesToZero ==
    (sc_in.impl = "pipeline" /\ sc_out # NoResult /\ LookupEmptyOrError)
    => /\ sc_out.status = "ok"
       /\ sc_out.bonus = 0
       /\ sc_out.total = calculate_propensity_score(sc_in.row)

\* ------------------------------------------------------------------------
\* C11: a second scoring of an unchanged lead, after a first one that
\* succeeded (warm cache), returns the identical result and takes its
\* enrichment from the cache: it makes no lookup of its own.
\* ------------------------------------------------------------------------
C11_SecondCallServedFromCache ==
    (rep_call.impl = "pipeline" /\ Len(rep_log) = 2 /\ rep_log[1].status = "ok")
    => /\ rep_log[2].status = rep_log[1].status
       /\ rep_log[2].total = rep_log[1].total
       /\ rep_log[2].bonus = rep_log[1].bonus
       /\ rep_log[2].lookups = 0

\* ------------------------------------------------------------------------
\* C12: two evaluations of the weighted score calculator with the same lead
\* attributes and the same weights return the same total and the same
\* sub-scores, whenever they are made.
\* ------------------------------------------------------------------------
C12_SameInputsSameScore ==
    (rep_call.impl \in {"ScoringService", "PropensityScorer"} /\ Len(rep_log) = 2)
    => /\ rep_log[2].total = rep_log[1].total
       /\ rep_log[2].parts = rep_log[1].parts

C14_TopTierLeadScores100 ==
    (sc_out.status = "ok" /\ sc_in.impl \in {"ScoringService", "PropensityScorer"}
     /\ sc_in.lead = DirectorOfToxicology /\ sc_in.weights = DefaultWeights)
    => LET l == sc_in.lead
           w == sc_in.weights
           ss == sc_in.impl = "ScoringService"
       IN  /\ sc_out.total = 100
           /\ (IF ss THEN SS_score_role_fit(l, w) ELSE PS_score_role_fit(l, w))
                = DEFAULT_ROLE_WEIGHT * 100
           /\ (IF ss THEN SS_score_publication(l, w, CurrentYear)
                     ELSE PS_score_publication(l, w, CurrentYear))
                = DEFAULT_PUBLICATION_WEIGHT * 100
           /\ (IF ss THEN SS_score_funding(l, w) ELSE PS_score_funding(l, w))
                = DEFAULT_FUNDING_WEIGHT * 100
           /\ (IF ss THEN SS_score_location(l, w) ELSE PS_score_location(l, w))
                = DEFAULT_LOCATION_WEIGHT * 100

\* the top-tier lead has been scored by the Streamlit scorer under the
\* default weights
C14_Witness ==
    /\ sc_out.status = "ok"
    /\ sc_in.impl = "PropensityScorer"
    /\ sc_in.lead = DirectorOfToxicology
    /\ sc_in.weights = DefaultWeights
    /\ sc_out.total = 100

\* ------------------------------------------------------------------------
\* C15: the stored score of every scored lead equals the sum, truncated and
\* capped to 0..100, of the sub-scores that get_score_breakdown reports for
\* that lead, in every state reached through create, update, bulk create
\* and rescore.
\* ------------------------------------------------------------------------
C15_ScoreIsSumOfBreakdown ==
    \A l \in leads :
        l.propensity_score # NULL =>
            l.propensity_score =
                Max(0, Min(100, IntOf(SS_score_role_fit(l.attrs, DefaultWeights)
                     + SS_score_publication(l.attrs, DefaultWeights, CurrentYear)
                     + SS_score_funding(l.attrs, DefaultWeights)
                     + SS_score_location(l.attrs, DefaultWeights))))

\* ------------------------------------------------------------------------
\* C16: a lead is created with rank NULL, and only the write pass of a
\* recompute of its scope that has the lead in its snapshot changes the
\* lead's rank.
\* ------------------------------------------------------------------------
C16_RankSetOnlyByRecompute ==
    [][\A l \in leads' :
          IF Exists(l.id)
          THEN l.rank # Row(l.id).rank =>
                 \E s \in Sessions :
                    /\ pc[s] = "rank_write" /\ pc'[s] = "returning"
                    /\ cur_user[s] = l.user_id
                    /\ PosIn(snap[s], l.id) # 0
                    /\ l.rank = PosIn(snap[s], l.id)
          ELSE l.rank = NULL]_vars

\* a lead has just been created next to a ranked one: its rank is still
\* NULL while the request is about to recompute the ranks
C16_Witness ==
    \E s \in Sessions :
        /\ pc[s] = "rank_read" /\ mutated[s]
        /\ \E l \in LeadsOf(cur_user[s]) : l.rank = NULL
        /\ \E l \in LeadsOf(cur_user[s]) : l.rank # NULL

\* C17: when the rank write-back of a recompute fails, none of the new ranks
\* becomes visible and the recompute is run again as a whole: a request that
\* leaves the write-back either has written the rank of every lead of its
\* pass, or has written nothing and goes back to read the scope again.
C17_FailedWriteBackRetried ==
    [][\A s \in Sessions :
          (pc[s] = "rank_write" /\ pc'[s] # "rank_write") =>
             \/ /\ pc'[s] = "returning"
                /\ \A l \in leads' :
                     PosIn(snap[s], l.id) # 0 => l.rank = PosIn(snap[s], l.id)
             \/ /\ pc'[s] = "rank_read"
                /\ leads' = leads]_vars

\* C18: recomputes for different scopes are independent.  While requests of
\* two owners run concurrently, a recompute reads only its own owner's leads,
\* its write-back leaves every lead of every other owner unchanged, and the
\* ranks it writes are an ordering of its owner's leads as they are at the
\* write-back, whatever the other owner's request did in between: the same
\* ranks as with the two recomputes run one after the other, in either order.
C18_ScopesIndependent ==
    /\ [](\A s \in Sessions :
            pc[s] = "rank_write" =>
              /\ \A i \in DOMAIN snap[s] :
                   \E l \in leads : l.id = snap[s][i] /\ l.user_id = cur_user[s]
              /\ \A l \in leads :
                   l.user_id = cur_user[s] => PosIn(snap[s], l.id) # 0
              /\ \A i, j \in DOMAIN snap[s] :
                   i < j => SortKey(Row(snap[s][i])) >= SortKey(Row(snap[s][j])))
    /\ [][\A s \in Sessions :
            (pc[s] \in {"rank_read", "rank_write"} /\ pc'[s] # pc[s]) =>
               {l \in leads : l.user_id # cur_user[s]}
                 = {l \in leads' : l.user_id # cur_user[s]}]_vars

\* both owners' recomputes are between their read and their write-back, one
\* of them over two leads
C18_Witness ==
    /\ pc[1] = "rank_write" /\ pc[2] = "rank_write"
    /\ cur_user[1] # cur_user[2]
    /\ Len(snap[1]) = 2 /\ Len(snap[2]) = 1

\* C19: a value returned by Cache.get is never older than the ttl it was
\* stored with, by Cache.set or by Cache.set_many: once ttl seconds have passed
\* since the value was stored, get reports a miss.
C19_NeverOlderThanTTL ==
    ex_got.hit => ex_got.age < ex_got.ttl

\* C20: every external call ends after at most the configured number of
\* attempts; only a transient failure is followed by another attempt; a call
\* whose last attempt failed transiently has used all its attempts; and a call
\* whose last attempt failed surfaces an error.
C20_BoundedRetryOnTransientFailure ==
    \A i \in DOMAIN rt_log :
        LET c == rt_log[i]
            n == Len(c.attempts)
        IN  /\ n <= max_retries
            /\ \A j \in 1..(n - 1) : c.attempts[j] = "transient"
            /\ c.attempts[n] = "transient" => n = max_retries /\ c.result = "error"
            /\ c.attempts[n] = "permanent" => c.result = "error"
            /\ c.attempts[n] = "ok" => c.result = "ids"

\* ------------------------------------------------------------------------
\* C21: when the fetch or the classification of one publication fails, that
\* publication contributes 0 and nothing else: the bonus computation still
\* completes and the bonus is the one of the maximum relevance over the
\* publications that succeeded.
\* ------------------------------------------------------------------------
C21_FailedPublicationContributesZero ==
    (/\ sc_in.impl = "pipeline" /\ sc_out # NoResult
     /\ sc_in.lookup.search = "ok"
     /\ \E i \in DOMAIN sc_in.lookup.abstracts :
          sc_in.lookup.abstracts[i] \in {"fetch_error", "classifier_error"})
    => LET succeeded == {i \in DOMAIN sc_in.lookup.abstracts :
                           sc_in.lookup.abstracts[i] \notin {"fetch_error", "classifier_error"}}
           values == {classify_relevance(sc_in.lookup.abstracts[i]) : i \in succeeded} \cup {0}
           best == CHOOSE m \in values : \A x \in values : x <= m
       IN  /\ sc_out.status = "ok"
           /\ sc_out.bonus = (best * 20) \div 100

\* ------------------------------------------------------------------------
\* C22: the relevance bonus of a subject is the maximum, not the average, of
\* the relevance values of the abstracts of the publications fetched for the
\* subject (at most MaxPubs, the newest first), is 0 when no publication is
\* found, and lies between 0 and 1 (0 to 20 points).
\* ------------------------------------------------------------------------
C22_BonusIsMaximum ==
    (sc_in.impl = "pipeline" /\ sc_out.status = "ok")
    => LET a == sc_in.lookup.abstracts
           value(i) == CASE a[i] = "HIGH" -> 100 [] a[i] = "MEDIUM" -> 50 [] OTHER -> 0
       IN  /\ Len(a) <= MaxPubs
           /\ a = <<>> => sc_out.bonus = 0
           /\ a # <<>> =>
                /\ \E i \in DOMAIN a : sc_out.bonus = (value(i) * 20) \div 100
                /\ \A i \in DOMAIN a : sc_out.bonus >= (value(i) * 20) \div 100
           /\ sc_out.bonus \in 0..20

\* one strongly relevant publication among irrelevant ones
C22_Witness ==
    /\ sc_in.impl = "pipeline" /\ sc_out.status = "ok"
    /\ sc_in.lookup.abstracts = <<"LOW", "HIGH">>
    /\ sc_out.bonus = 20

\* ------------------------------------------------------------------------
\* C23: the classifier's answer HIGH counts 1.0, MEDIUM 0.5, LOW and any
\* other answer 0.0; an abstract shorter than the minimum length counts 0.0
\* and the classifier is not called for it.
\* ------------------------------------------------------------------------
C23_ClassifierMapping ==
    (sc_in.impl = "pipeline" /\ sc_out.status = "ok")
    => LET a == sc_in.lookup.abstracts
       IN  /\ sc_out.classified = Cardinality({i \in DOMAIN a : a[i] # "short"})
           /\ Len(a) = 1 =>
                sc_out.bonus = CASE a[1] = "HIGH" -> 20
                                 [] a[1] = "MEDIUM" -> 10
                                 [] OTHER -> 0

\* a short abstract and an answer that is none of the three words
C23_Witness ==
    /\ sc_in.impl = "pipeline" /\ sc_out.status = "ok"
    /\ sc_in.lookup.abstracts \in {<<"short">>, <<"UNSURE">>}
    /\ sc_out.bonus = 0

\* ------------------------------------------------------------------------
\* C24: the weights are overridable per owner: once the first owner has
\* stored scoring weights (they sum to 100), every score given to one of
\* that owner's leads, on create, bulk create or rescore, is the score
\* under those weights.
\* ------------------------------------------------------------------------
C24_OwnerWeightsUsed ==
    [][prefs.given =>
         \A l \in leads' :
            (/\ l.user_id = 1
             /\ l.propensity_score # NULL
             /\ Exists(l.id) => Row(l.id).propensity_score # l.propensity_score)
            => l.propensity_score
                 = SS_calculate_score(l.attrs, prefs.weights, CurrentYear)]_vars

\* ------------------------------------------------------------------------
\* C25: ScoringService wraps the logic of PropensityScorer: for every lead
\* and every weight configuration that sums to 100, the total returned by
\* the one scorer is the total the other returns for the same attributes.
\* ------------------------------------------------------------------------
C25_ScorersAgree ==
    (sc_out.status = "ok" /\ sc_in.impl \in {"ScoringService", "PropensityScorer"})
    => sc_out.total =
         IF sc_in.impl = "ScoringService"
         THEN PS_calculate_score(sc_in.lead, sc_in.weights, CurrentYear)
         ELSE SS_calculate_score(sc_in.lead, sc_in.weights, CurrentYear)

\* ------------------------------------------------------------------------
\* C26: the mid-tier lead (Research Scientist, a title with only a generic
\* science keyword; Boston; no publication; Seed funding) gets from
\* PropensityScorer, under the default weights, a score within 10 points
\* of 40.
\* ------------------------------------------------------------------------
C26_MidTierLeadScoresNear40 ==
    (/\ sc_out.status = "ok" /\ sc_in.impl = "PropensityScorer"
     /\ sc_in.lead = ResearchScientist /\ sc_in.weights = DefaultWeights)
    => /\ sc_out.total - 40 < 10
       /\ 40 - sc_out.total < 10

C28_CounterAlwaysExpires == rl_key # NULL => rl_ttl

\* ------------------------------------------------------------------------
\* C29: lead emails stay unique per owner: whatever the sequence or
\* interleaving of create_lead and bulk_create_leads (skip_duplicates)
\* requests, no two leads of the owner hold the same email, the entries of
\* one bulk request included.
\* ------------------------------------------------------------------------
C29_EmailsUniquePerOwner == \A e \in Emails : cr_emails[e] <= 1

\* ------------------------------------------------------------------------
\* C30: every lead that holds a rank also holds a score between 0 and 100:
\* update_lead_ranks gives no rank to a lead whose propensity_score is null.
\* ------------------------------------------------------------------------
C30_RankedLeadsAreScored ==
    \A l \in leads : l.rank # NULL => l.propensity_score \in 0..100

====
